---- MODULE Spec2Model ----
(***************************************************************************)
(* Model of pyforcesim.simulation.databases: the Database access layer     *)
(* around an SQLite file (connection per call, identifier sanitizer, type  *)
(* vocabulary, statement builders) and the temporal adapters/converters.   *)
(*                                                                         *)
(* Text is modelled as a sequence of one-character strings, so that the    *)
(* regular expression, upper-casing and ISO formatting are computed.       *)
(***************************************************************************)
EXTENDS Integers, Sequences, FiniteSets, TLC

(***************************************************************************)
(* Characters and text                                                     *)
(***************************************************************************)
LowerAlpha == << "a","b","c","d","e","f","g","h","i","j","k","l","m",
                 "n","o","p","q","r","s","t","u","v","w","x","y","z" >>

UpperAlpha == << "A","B","C","D","E","F","G","H","I","J","K","L","M",
                 "N","O","P","Q","R","S","T","U","V","W","X","Y","Z" >>

DigitAlpha == << "0","1","2","3","4","5","6","7","8","9" >>

Range(f) == { f[i] : i \in DOMAIN f }

Letters == Range(LowerAlpha) \cup Range(UpperAlpha)

Digits == Range(DigitAlpha)

\* the class \w of the pattern, over the characters the model uses
WordChars == Letters \cup Digits \cup {"_"}

\* str.lower / str.upper on one character
LowerChar(c) ==
    IF c \in Range(UpperAlpha)
    THEN LowerAlpha[CHOOSE i \in DOMAIN UpperAlpha : UpperAlpha[i] = c]
    ELSE c

UpperChar(c) ==
    IF c \in Range(LowerAlpha)
    THEN UpperAlpha[CHOOSE i \in DOMAIN LowerAlpha : LowerAlpha[i] = c]
    ELSE c

Lower(s) == [i \in DOMAIN s |-> LowerChar(s[i])]

Upper(s) == [i \in DOMAIN s |-> UpperChar(s[i])]

\* sub occurs in s as a contiguous substring
Contains(s, sub) ==
    \E i \in 1..(Len(s) - Len(sub) + 1) : SubSeq(s, i, i + Len(sub) - 1) = sub

\* ' '.join / ', '.join over a sequence of texts
RECURSIVE Join(_, _)
Join(parts, sep) ==
    IF parts = <<>> THEN <<>>
    ELSE IF Len(parts) = 1 THEN parts[1]
    ELSE parts[1] \o sep \o Join(Tail(parts), sep)

\* every sequence over S of length at most n
Extend(shorter, S) == shorter \cup { Append(q, x) : q \in shorter, x \in S }

RECURSIVE SeqsUpTo(_, _)
SeqsUpTo(S, n) == IF n = 0 THEN { <<>> } ELSE Extend(SeqsUpTo(S, n - 1), S)

(***************************************************************************)
(* Sanitizer: DB_INJECTION_PATTERN and Database._clean_query_injection     *)
(*   (^[_0-9]+)|[^\w ]|(true|false|select|where|drop|delete|create)        *)
(* compiled with re.IGNORECASE and applied with search().                  *)
(***************************************************************************)
BannedKeywords ==
    { <<"t","r","u","e">>, <<"f","a","l","s","e">>,
      <<"s","e","l","e","c","t">>, <<"w","h","e","r","e">>,
      <<"d","r","o","p">>, <<"d","e","l","e","t","e">>,
      <<"c","r","e","a","t","e">> }

\* first alternative: ^[_0-9]+  (one or more leading underscores or digits)
MatchesLeading(value) ==
    /\ value # <<>>
    /\ value[1] \in Digits \cup {"_"}

\* second alternative: [^\w ]  (a character that is neither \w nor a space)
MatchesNonWord(value) ==
    \E i \in DOMAIN value : value[i] \notin WordChars \cup {" "}

\* third alternative: one of the keywords, letter case ignored
MatchesKeyword(value) ==
    \E kw \in BannedKeywords : Contains(Lower(value), kw)

\* a mutant of the pattern: compiled without re.IGNORECASE
PatternCaseSensitive(value) ==
    \/ MatchesLeading(value)
    \/ MatchesNonWord(value)
    \/ \E kw \in BannedKeywords : Contains(value, kw)

\* a mutant of the pattern: the first alternative anchored at both ends
PatternFullyNumeric(value) ==
    \/ value # <<>> /\ \A i \in DOMAIN value : value[i] \in Digits
    \/ MatchesNonWord(value)
    \/ MatchesKeyword(value)

\* pattern.search(value) is not None
DB_INJECTION_PATTERN(value) ==
    MatchesLeading(value) \/ MatchesNonWord(value) \/ MatchesKeyword(value)

\* raises ValueError('Unallowed characters in value ...') or returns value
_clean_query_injection(value) ==
    IF DB_INJECTION_PATTERN(value)
    THEN [raised |-> TRUE, value |-> value]
    ELSE [raised |-> FALSE, value |-> value]

(***************************************************************************)
(* Type vocabulary.  DB_DATA_TYPES and DB_SUPPORTED_COL_CONSTRAINTS are     *)
(* imported from pyforcesim.types; DB_DATA_TYPES_ALLOWED is the base types  *)
(* united with every "<type> <constraint>" combination.                     *)
(***************************************************************************)
TypeINTEGER == <<"I","N","T","E","G","E","R">>

TypeTEXT == <<"T","E","X","T">>

TypeREAL == <<"R","E","A","L">>

TypeBLOB == <<"B","L","O","B">>

TypeDATE == <<"D","A","T","E">>

TypeDATETIME == <<"D","A","T","E","T","I","M","E">>

TypeTIMEDELTA == <<"T","I","M","E","D","E","L","T","A">>

ConstraintPRIMARYKEY == <<"P","R","I","M","A","R","Y"," ","K","E","Y">>

DB_DATA_TYPES ==
    { TypeINTEGER, TypeTEXT, TypeREAL, TypeBLOB, TypeDATE, TypeDATETIME,
      TypeTIMEDELTA }

DB_SUPPORTED_COL_CONSTRAINTS == { ConstraintPRIMARYKEY }

DB_DATA_TYPES_ALLOWED ==
    DB_DATA_TYPES \cup
    { Join(<<t, c>>, <<" ">>) : t \in DB_DATA_TYPES, c \in DB_SUPPORTED_COL_CONSTRAINTS }

(***************************************************************************)
(* Database._format_column_declaration.  A declaration is the ordered       *)
(* mapping as a sequence of [name, type].  Per column: upper-case the type, *)
(* check the vocabulary, sanitize the name, sanitize the type.  The result  *)
(* is either the fragments "name TYPE" or the first error raised: kind      *)
(* "vocabulary" (the message lists DB_DATA_TYPES_ALLOWED) or "sanitizer",   *)
(* with the index of the column it was raised on.                           *)
(***************************************************************************)
NoError == [raised |-> FALSE, kind |-> "none", at |-> 0]

ColumnError(kind, i) == [raised |-> TRUE, kind |-> kind, at |-> i]

\* a mutant of the column check: the name is sanitized before the type is looked up
ColumnCheckSanitizeFirst(col_name, col_type, i) ==
    IF _clean_query_injection(col_name).raised THEN ColumnError("sanitizer", i)
    ELSE IF col_type \notin DB_DATA_TYPES_ALLOWED THEN ColumnError("vocabulary", i)
    ELSE IF _clean_query_injection(col_type).raised THEN ColumnError("sanitizer", i)
    ELSE NoError

\* a mutant of the column check: the vocabulary is not consulted
ColumnCheckNoVocabulary(col_name, col_type, i) ==
    IF _clean_query_injection(col_name).raised THEN ColumnError("sanitizer", i)
    ELSE IF _clean_query_injection(col_type).raised THEN ColumnError("sanitizer", i)
    ELSE NoError

\* the body of the loop for the column col_name at index i, col_type being
\* the declared type after upper()
ColumnCheck(col_name, col_type, i) ==
    IF col_type \notin DB_DATA_TYPES_ALLOWED THEN ColumnError("vocabulary", i)
    ELSE IF _clean_query_injection(col_name).raised THEN ColumnError("sanitizer", i)
    ELSE IF _clean_query_injection(col_type).raised THEN ColumnError("sanitizer", i)
    ELSE NoError

\* a mutant of the type's case folding: the type is used as it was written
TypeAsWritten(type) == type

\* col_type = col_type.upper()
UpperType(type) == Upper(type)

\* the fragment f'{col_name} {col_type}'
ColumnFragment(col) == col.name \o <<" ">> \o UpperType(col.type)

Formatted(err, col_def) == [err |-> err, col_def |-> col_def]

\* the fragment of a checked column put before those of the columns after it
Prepend(fragment, rest) ==
    IF rest.err.raised THEN rest ELSE Formatted(NoError, << fragment >> \o rest.col_def)

RECURSIVE FormatFrom(_, _)
\* the column at index i has been checked with the outcome e
FormatChecked(columns, i, e) ==
    IF e.raised THEN Formatted(e, <<>>)
    ELSE Prepend(ColumnFragment(columns[i]), FormatFrom(columns, i + 1))

FormatFrom(columns, i) ==
    IF i > Len(columns) THEN Formatted(NoError, <<>>)
    ELSE FormatChecked(columns, i,
                       ColumnCheck(columns[i].name, UpperType(columns[i].type), i))

_format_column_declaration(columns) == FormatFrom(columns, 1)

(***************************************************************************)
(* Decimal text of integers, as str(int) / int(text) and the zero-padded   *)
(* fields of isoformat() produce and read it.                              *)
(***************************************************************************)
DigitOf(c) == (CHOOSE i \in DOMAIN DigitAlpha : DigitAlpha[i] = c) - 1

RECURSIVE NatText(_)
NatText(n) ==
    IF n < 10 THEN << DigitAlpha[n + 1] >>
    ELSE Append(NatText(n \div 10), DigitAlpha[(n % 10) + 1])

IntText(n) == IF n < 0 THEN <<"-">> \o NatText(0 - n) ELSE NatText(n)

AllDigits(s) == s # <<>> /\ \A i \in DOMAIN s : s[i] \in Digits

RECURSIVE NatValue(_)
NatValue(s) ==
    IF s = <<>> THEN 0
    ELSE 10 * NatValue(SubSeq(s, 1, Len(s) - 1)) + DigitOf(s[Len(s)])

\* the texts the store reads as an integer: digits with a sign
IsIntText(s) ==
    \/ AllDigits(s)
    \/ Len(s) > 1 /\ s[1] \in {"-", "+"} /\ AllDigits(Tail(s))

IntValue(s) ==
    IF s[1] = "-" THEN 0 - NatValue(Tail(s))
    ELSE IF s[1] = "+" THEN NatValue(Tail(s))
    ELSE NatValue(s)

\* digits, with single underscores between them
Grouped(s) ==
    /\ s # <<>>
    /\ s[1] \in Digits
    /\ s[Len(s)] \in Digits
    /\ \A i \in DOMAIN s : s[i] \in Digits \cup {"_"}
    /\ \A i \in 1..(Len(s) - 1) : s[i] # "_" \/ s[i + 1] # "_"

\* the texts int() reads, whitespace around them stripped: an optional
\* sign, then digits with single underscores between them
IsIntLiteral(s) ==
    \/ Grouped(s)
    \/ Len(s) > 1 /\ s[1] \in {"-", "+"} /\ Grouped(Tail(s))

IntLiteralValue(s) == IntValue(SelectSeq(s, LAMBDA c : c # "_"))

RECURSIVE Zeros(_)
Zeros(n) == IF n <= 0 THEN <<>> ELSE <<"0">> \o Zeros(n - 1)

PadText(t, width) == Zeros(width - Len(t)) \o t

\* f'{n:0{width}d}'
Pad(n, width) == PadText(NatText(n), width)

(***************************************************************************)
(* Timestamp codec: adapt_datetime_iso (datetime.isoformat) and            *)
(* convert_datetime (datetime.fromisoformat).  A timestamp is the record   *)
(* of its fields; it carries no timezone.                                  *)
(***************************************************************************)
MkDatetime(y, mo, d, h, mi, s, us) ==
    [year |-> y, month |-> mo, day |-> d, hour |-> h, minute |-> mi,
     second |-> s, microsecond |-> us]

IsLeap(y) == (y % 4 = 0 /\ y % 100 # 0) \/ y % 400 = 0

DaysInMonth(y, m) ==
    IF m = 2 THEN (IF IsLeap(y) THEN 29 ELSE 28)
    ELSE IF m \in {4, 6, 9, 11} THEN 30 ELSE 31

IsoDate(y, mo, d) == Pad(y, 4) \o <<"-">> \o Pad(mo, 2) \o <<"-">> \o Pad(d, 2)

IsoTime(h, mi, s) == Pad(h, 2) \o <<":">> \o Pad(mi, 2) \o <<":">> \o Pad(s, 2)

\* a mutant of the adapter: the microseconds are always dropped
IsoformatSecondsOnly(val) ==
    IsoDate(val.year, val.month, val.day) \o <<"T">>
        \o IsoTime(val.hour, val.minute, val.second)

\* val.isoformat(): YYYY-MM-DDTHH:MM:SS, with .ffffff when microsecond # 0
adapt_datetime_iso(val) ==
    IsoDate(val.year, val.month, val.day) \o <<"T">>
        \o IsoTime(val.hour, val.minute, val.second)
        \o (IF val.microsecond = 0 THEN <<>> ELSE <<".">> \o Pad(val.microsecond, 6))

\* the layouts of fromisoformat the model reads: YYYY-MM-DD alone, or
\* followed by one separator character and HH:MM:SS[.ffffff]
IsoShape(t) ==
    /\ Len(t) \in {10, 19, 26}
    /\ AllDigits(SubSeq(t, 1, 4)) /\ t[5] = "-"
    /\ AllDigits(SubSeq(t, 6, 7)) /\ t[8] = "-"
    /\ AllDigits(SubSeq(t, 9, 10))
    /\ Len(t) >= 19 =>
          /\ AllDigits(SubSeq(t, 12, 13)) /\ t[14] = ":"
          /\ AllDigits(SubSeq(t, 15, 16)) /\ t[17] = ":"
          /\ AllDigits(SubSeq(t, 18, 19))
    /\ Len(t) = 26 => t[20] = "." /\ AllDigits(SubSeq(t, 21, 26))

IsoFields(t) ==
    MkDatetime(NatValue(SubSeq(t, 1, 4)), NatValue(SubSeq(t, 6, 7)),
               NatValue(SubSeq(t, 9, 10)),
               IF Len(t) >= 19 THEN NatValue(SubSeq(t, 12, 13)) ELSE 0,
               IF Len(t) >= 19 THEN NatValue(SubSeq(t, 15, 16)) ELSE 0,
               IF Len(t) >= 19 THEN NatValue(SubSeq(t, 18, 19)) ELSE 0,
               IF Len(t) = 26 THEN NatValue(SubSeq(t, 21, 26)) ELSE 0)

ValidDatetime(v) ==
    /\ v.year \in 1..9999 /\ v.month \in 1..12
    /\ v.day \in 1..DaysInMonth(v.year, v.month)
    /\ v.hour \in 0..23 /\ v.minute \in 0..59 /\ v.second \in 0..59
    /\ v.microsecond \in 0..999999

NoDatetime == MkDatetime(1, 1, 1, 0, 0, 0, 0)

Converted(v) == [raised |-> FALSE, value |-> v]

ConvertFailed(v) == [raised |-> TRUE, value |-> v]

DatetimeOfFields(fields) ==
    IF ValidDatetime(fields) THEN Converted(fields) ELSE ConvertFailed(NoDatetime)

\* Datetime.fromisoformat(val.decode()): the timestamp, or ValueError
convert_datetime(val) ==
    IF IsoShape(val) THEN DatetimeOfFields(IsoFields(val)) ELSE ConvertFailed(NoDatetime)

(***************************************************************************)
(* Date and duration codecs: adapt_date_iso / convert_date and             *)
(* adapt_timedelta / convert_timedelta.                                    *)
(***************************************************************************)
MkDate(y, mo, d) == [year |-> y, month |-> mo, day |-> d]

MkTimedelta(d, s, us) == [days |-> d, seconds |-> s, microseconds |-> us]

NoDate == MkDate(1, 1, 1)

NoTimedelta == MkTimedelta(0, 0, 0)

adapt_date_iso(val) == IsoDate(val.year, val.month, val.day)

DateOfFields(fields) ==
    IF ValidDatetime(fields)
    THEN Converted(MkDate(fields.year, fields.month, fields.day))
    ELSE ConvertFailed(NoDate)

\* Date.fromisoformat(val.decode()): YYYY-MM-DD, or ValueError
convert_date(val) ==
    IF Len(val) = 10 /\ IsoShape(val) THEN DateOfFields(IsoFields(val))
    ELSE ConvertFailed(NoDate)

\* a mutant of the adapter: seconds before days
AdaptTimedeltaSwapped(td) ==
    IntText(td.seconds) \o <<",">> \o IntText(td.days) \o <<",">>
        \o IntText(td.microseconds)

\* f'{td.days},{td.seconds},{td.microseconds}'
adapt_timedelta(td) ==
    IntText(td.days) \o <<",">> \o IntText(td.seconds) \o <<",">>
        \o IntText(td.microseconds)

FirstIndex(t, sep) ==
    CHOOSE j \in DOMAIN t : t[j] = sep /\ \A k \in 1..(j - 1) : t[k] # sep

\* bytes.split(sep): the fields between the separators (empty fields kept)
RECURSIVE SplitOn(_, _)
SplitAt(t, sep, i) ==
    << SubSeq(t, 1, i - 1) >> \o SplitOn(SubSeq(t, i + 1, Len(t)), sep)

SplitOn(t, sep) ==
    IF \A i \in DOMAIN t : t[i] # sep THEN << t >>
    ELSE SplitAt(t, sep, FirstIndex(t, sep))

\* bytes.strip() of spaces, as int() does before it reads the digits
RECURSIVE Strip(_)
Strip(t) ==
    IF t = <<>> THEN t
    ELSE IF t[1] = " " THEN Strip(Tail(t))
    ELSE IF t[Len(t)] = " " THEN Strip(SubSeq(t, 1, Len(t) - 1))
    ELSE t

FloorDiv(a, b) == IF a >= 0 THEN a \div b ELSE 0 - ((b - 1 - a) \div b)

FloorMod(a, b) == a - b * FloorDiv(a, b)

\* timedelta(days, seconds, microseconds) normalises to
\* 0 <= seconds < 86400 and 0 <= microseconds < 1000000 (it raises
\* OverflowError beyond 999999999 days, which no text of the model reaches)
NormalSeconds(d, s, us) ==
    MkTimedelta(d + FloorDiv(s, 86400), FloorMod(s, 86400), us)

NormalTimedelta(d, s, us) ==
    NormalSeconds(d, s + FloorDiv(us, 1000000), FloorMod(us, 1000000))

\* a mutant of the converter: a field is read only when written as the
\* adapter writes it
TimedeltaOfFieldsStrict(nums) ==
    IF Len(nums) = 3 /\ \A i \in DOMAIN nums : nums[i] # <<>> /\ IsIntText(nums[i])
                                                /\ nums[i][1] # "+"
    THEN Converted(NormalTimedelta(IntValue(nums[1]), IntValue(nums[2]),
                                   IntValue(nums[3])))
    ELSE ConvertFailed(NoTimedelta)

TimedeltaOfFields(nums) ==
    IF Len(nums) = 3 /\ \A i \in DOMAIN nums : IsIntLiteral(nums[i])
    THEN Converted(NormalTimedelta(IntLiteralValue(nums[1]), IntLiteralValue(nums[2]),
                                   IntLiteralValue(nums[3])))
    ELSE ConvertFailed(NoTimedelta)

StripAll(parts) == [i \in DOMAIN parts |-> Strip(parts[i])]

\* days, secs, mic_secs = tuple(map(int, val.split(b','))), or ValueError
convert_timedelta(val) == TimedeltaOfFields(StripAll(SplitOn(val, ",")))

(***************************************************************************)
(* Python values of a row and the values the store holds.                  *)
(* A Python value is tagged with its type (k) and carried in the field of  *)
(* that type; the store holds integers, reals and text.                    *)
(***************************************************************************)
PyValue(k, n, t, dt, d, td) == [k |-> k, n |-> n, t |-> t, dt |-> dt, d |-> d, td |-> td]

PyInt(n) == PyValue("int", n, <<>>, NoDatetime, NoDate, NoTimedelta)

PyFloat(n) == PyValue("float", n, <<>>, NoDatetime, NoDate, NoTimedelta)

PyStr(t) == PyValue("str", 0, t, NoDatetime, NoDate, NoTimedelta)

PyDatetime(dt) == PyValue("datetime", 0, <<>>, dt, NoDate, NoTimedelta)

PyDate(d) == PyValue("date", 0, <<>>, NoDatetime, d, NoTimedelta)

PyTimedelta(td) == PyValue("timedelta", 0, <<>>, NoDatetime, NoDate, td)

SqlInteger(n) == [k |-> "integer", n |-> n, t |-> <<>>]

SqlReal(n) == [k |-> "real", n |-> n, t |-> <<>>]

SqlText(t) == [k |-> "text", n |-> 0, t |-> t]

\* the text a value is bound as when an adapter is registered for its type
AdaptedText(v) ==
    IF v.k = "datetime" THEN adapt_datetime_iso(v.dt)
    ELSE IF v.k = "date" THEN adapt_date_iso(v.d)
    ELSE adapt_timedelta(v.td)

\* binding a parameter: int, float and str natively, the temporal types
\* through the adapters registered for Date, Datetime and Timedelta
Adapt(v) ==
    IF v.k = "int" THEN SqlInteger(v.n)
    ELSE IF v.k = "float" THEN SqlReal(v.n)
    ELSE IF v.k = "str" THEN SqlText(v.t)
    ELSE SqlText(AdaptedText(v))

(***************************************************************************)
(* The store: what SQLite does with the statements the Database sends.     *)
(* A database file is a function from table keys (names are case           *)
(* insensitive) to tables; a table has its reflected columns and its rows  *)
(* in rowid order.  The names the model uses hold no SQL reserved word.    *)
(***************************************************************************)
EmptyDb == [key \in {} |-> 0]

\* the words of a text (separated by spaces)
Tokens(t) == SelectSeq(SplitOn(t, " "), LAMBDA w : w # <<>>)

UpperAll(words) == [j \in DOMAIN words |-> Upper(words[j])]

KwPRIMARY == <<"P","R","I","M","A","R","Y">>

KwKEY == <<"K","E","Y">>

IsConstraintAt(words, i) == words[i] = KwPRIMARY /\ words[i + 1] = KwKEY

\* index of the PRIMARY KEY constraint among the (upper case) words of a
\* column definition, or 0
ConstraintAt(words) ==
    IF \E i \in 2..(Len(words) - 1) : IsConstraintAt(words, i)
    THEN CHOOSE i \in 2..(Len(words) - 1) :
           IsConstraintAt(words, i) /\ \A j \in 2..(i - 1) : ~IsConstraintAt(words, j)
    ELSE 0

\* the column as table_info reports it:
\* (cid, name, type, notnull, dflt_value, pk)
ColumnAt(words, c, i) ==
    [cid |-> i - 1, name |-> words[1],
     type |-> Join(SubSeq(words, 2, IF c = 0 THEN Len(words) ELSE c - 1), <<" ">>),
     notnull |-> 0, dflt_value |-> "None", pk |-> IF c = 0 THEN 0 ELSE 1]

ColumnOfWords(words, i) == ColumnAt(words, ConstraintAt(UpperAll(words)), i)

\* a column definition "name type-words [PRIMARY KEY]"
ParseColumn(fragment, i) == ColumnOfWords(Tokens(fragment), i)

ParseColumns(col_def) == [i \in DOMAIN col_def |-> ParseColumn(col_def[i], i)]

AffinityOf(u) ==
    IF Contains(u, <<"I","N","T">>) THEN "INTEGER"
    ELSE IF \/ Contains(u, <<"C","H","A","R">>) \/ Contains(u, <<"C","L","O","B">>)
            \/ Contains(u, TypeTEXT) THEN "TEXT"
    ELSE IF Contains(u, TypeBLOB) \/ u = <<>> THEN "BLOB"
    ELSE IF \/ Contains(u, TypeREAL) \/ Contains(u, <<"F","L","O","A">>)
            \/ Contains(u, <<"D","O","U","B">>) THEN "REAL"
    ELSE "NUMERIC"

\* column affinity from the declared type
Affinity(type) == AffinityOf(Upper(type))

RealText(n) == IntText(n) \o << ".", "0" >>

StoreAs(a, cell) ==
    IF a \in {"INTEGER", "NUMERIC"}
    THEN IF cell.k = "text" /\ IsIntText(cell.t) THEN SqlInteger(IntValue(cell.t))
         ELSE IF cell.k = "real" THEN SqlInteger(cell.n)
         ELSE cell
    ELSE IF a = "REAL"
    THEN IF cell.k = "text" /\ IsIntText(cell.t) THEN SqlReal(IntValue(cell.t))
         ELSE IF cell.k = "integer" THEN SqlReal(cell.n)
         ELSE cell
    ELSE IF a = "TEXT"
    THEN IF cell.k = "integer" THEN SqlText(IntText(cell.n))
         ELSE IF cell.k = "real" THEN SqlText(RealText(cell.n))
         ELSE cell
    ELSE cell

\* the value a column of this declared type stores for a bound value
ApplyAffinity(type, cell) == StoreAs(Affinity(type), cell)

\* the bytes a converter is handed for a stored value
CellText(cell) ==
    IF cell.k = "integer" THEN IntText(cell.n)
    ELSE IF cell.k = "real" THEN RealText(cell.n)
    ELSE cell.t

\* the Python value of a stored value without a converter
PlainValue(cell) ==
    IF cell.k = "integer" THEN PyInt(cell.n)
    ELSE IF cell.k = "real" THEN PyFloat(cell.n)
    ELSE PyStr(cell.t)

AsDatetime(r) == [raised |-> r.raised, value |-> PyDatetime(r.value)]

AsDate(r) == [raised |-> r.raised, value |-> PyDate(r.value)]

AsTimedelta(r) == [raised |-> r.raised, value |-> PyTimedelta(r.value)]

\* the key the converters are registered under: the first word of the
\* declared type, in upper case
ConverterKeyOf(words) == IF words = <<>> THEN <<>> ELSE words[1]

ConverterKey(type) == ConverterKeyOf(Tokens(Upper(type)))

\* a mutant of the decoding: no converter is registered for DATETIME
DecodeWithoutDatetime(key, cell) ==
    IF key = TypeDATE THEN AsDate(convert_date(CellText(cell)))
    ELSE IF key = TypeTIMEDELTA THEN AsTimedelta(convert_timedelta(CellText(cell)))
    ELSE Converted(PlainValue(cell))

\* register_converter('DATE' / 'DATETIME' / 'TIMEDELTA', ...)
DecodeWith(key, cell) ==
    IF key = TypeDATETIME THEN AsDatetime(convert_datetime(CellText(cell)))
    ELSE IF key = TypeDATE THEN AsDate(convert_date(CellText(cell)))
    ELSE IF key = TypeTIMEDELTA THEN AsTimedelta(convert_timedelta(CellText(cell)))
    ELSE Converted(PlainValue(cell))

\* detect_types=PARSE_DECLTYPES: the converter registered for the column's
\* declared type decodes the value, whatever the value looks like
Decode(type, cell) == DecodeWith(ConverterKey(type), cell)

(***************************************************************************)
(* Statements.  Each returns [ok, error, db, columns, rows]: db is the     *)
(* state the open transaction has reached (kept on commit, dropped on      *)
(* rollback), columns the result of table_info, rows the result of SELECT. *)
(***************************************************************************)
EngineOk(db, columns, rows) ==
    [ok |-> TRUE, error |-> "none", db |-> db, columns |-> columns, rows |-> rows]

EngineError(db, error) ==
    [ok |-> FALSE, error |-> error, db |-> db, columns |-> <<>>, rows |-> <<>>]

\* a table name is one word; anything else does not parse
IsOneName(table_name) == Len(Tokens(table_name)) = 1

TableKey(table_name) == Lower(Tokens(table_name)[1])

TableExists(db, table_name) ==
    IsOneName(table_name) /\ TableKey(table_name) \in DOMAIN db

NewTable(db, key, columns) == (key :> [columns |-> columns, rows |-> <<>>]) @@ db

CreateColumns(db, key, columns) ==
    IF \E i, j \in DOMAIN columns :
           i # j /\ Lower(columns[i].name) = Lower(columns[j].name)
    THEN EngineError(db, "duplicate column name")
    ELSE IF Cardinality({i \in DOMAIN columns : columns[i].pk = 1}) > 1
    THEN EngineError(db, "more than one primary key")
    ELSE EngineOk(NewTable(db, key, columns), <<>>, <<>>)

\* some of the words the engine keeps for itself: as the name of a column
\* they do not parse (the names of the model's declarations are one word)
ReservedWords ==
    { << "o","r","d","e","r" >>, << "g","r","o","u","p" >>,
      << "i","n","d","e","x" >>, << "t","a","b","l","e" >>,
      << "p","r","i","m","a","r","y" >> }

IsReserved(word) == Lower(word) \in ReservedWords

\* the CREATE statement parses: one word as the table name, at least one
\* column, no reserved word where the name of a column stands; the engine
\* finds a syntax error before it looks for the table
Parses(table_name, col_def) ==
    /\ IsOneName(table_name)
    /\ col_def # <<>>
    /\ \A i \in DOMAIN col_def : ~IsReserved(Tokens(col_def[i])[1])

\* a mutant of CREATE: without IF NOT EXISTS an existing table is an error
EngineCreateStrict(db, table_name, col_def) ==
    IF ~Parses(table_name, col_def) THEN EngineError(db, "syntax error")
    ELSE IF TableKey(table_name) \in DOMAIN db
    THEN EngineError(db, "table already exists")
    ELSE CreateColumns(db, TableKey(table_name), ParseColumns(col_def))

\* a mutant of CREATE: the table is made anew when it exists
EngineCreateReplace(db, table_name, col_def) ==
    IF ~Parses(table_name, col_def) THEN EngineError(db, "syntax error")
    ELSE CreateColumns(db, TableKey(table_name), ParseColumns(col_def))

\* CREATE TABLE IF NOT EXISTS <table_name> (<col_def joined by ', '>)
EngineCreate(db, table_name, col_def) ==
    IF ~Parses(table_name, col_def) THEN EngineError(db, "syntax error")
    ELSE IF TableKey(table_name) \in DOMAIN db THEN EngineOk(db, <<>>, <<>>)
    ELSE CreateColumns(db, TableKey(table_name), ParseColumns(col_def))

\* PRAGMA table_info(<table_name>): no row for a table that does not exist
EnginePragma(db, table_name) ==
    IF ~IsOneName(table_name) THEN EngineError(db, "syntax error")
    ELSE IF TableKey(table_name) \notin DOMAIN db THEN EngineOk(db, <<>>, <<>>)
    ELSE EngineOk(db, db[TableKey(table_name)].columns, <<>>)

IsRowidColumn(column) == column.pk = 1 /\ Upper(column.type) = TypeINTEGER

\* the column that is the rowid (declared INTEGER PRIMARY KEY), or 0
RowidColumn(columns) ==
    IF \E i \in DOMAIN columns : IsRowidColumn(columns[i])
    THEN CHOOSE i \in DOMAIN columns : IsRowidColumn(columns[i])
    ELSE 0

MaxRowid(rows) ==
    IF rows = <<>> THEN 0
    ELSE CHOOSE m \in { rows[i].rowid : i \in DOMAIN rows } :
             \A i \in DOMAIN rows : rows[i].rowid <= m

\* a mutant of the table order: rows are kept in the order of arrival
InsertAtEnd(rows, row) == Append(rows, row)

\* rows are kept in the order of the table's b-tree: ascending rowid
InsertByRowid(rows, row) ==
    SelectSeq(rows, LAMBDA r : r.rowid < row.rowid) \o << row >>
        \o SelectSeq(rows, LAMBDA r : r.rowid > row.rowid)

StoreRow(db, key, row) ==
    EngineOk([db EXCEPT ![key].rows = InsertByRowid(@, row)], <<>>, <<>>)

\* the row with the values cells goes into the table at key; rc is the
\* rowid column of the table or 0
InsertCells(db, key, table, cells, rc) ==
    IF rc # 0 /\ cells[rc].k # "integer" THEN EngineError(db, "datatype mismatch")
    ELSE IF \E i \in DOMAIN table.columns : \E r \in DOMAIN table.rows :
                table.columns[i].pk = 1 /\ table.rows[r].cells[i] = cells[i]
    THEN EngineError(db, "UNIQUE constraint failed")
    ELSE StoreRow(db, key,
                  [rowid |-> IF rc # 0 THEN cells[rc].n ELSE MaxRowid(table.rows) + 1,
                   cells |-> cells])

\* a mutant of the binding: every value is bound as text
BindAsText(columns, data) ==
    [i \in DOMAIN columns |-> ApplyAffinity(columns[i].type, SqlText(CellText(Adapt(data[i]))))]

BindCells(columns, data) ==
    [i \in DOMAIN columns |-> ApplyAffinity(columns[i].type, Adapt(data[i]))]

InsertInto(db, key, table, nparams, data) ==
    IF nparams # Len(table.columns) THEN EngineError(db, "wrong number of values")
    ELSE IF Len(data) # nparams THEN EngineError(db, "incorrect number of bindings")
    ELSE InsertCells(db, key, table, BindCells(table.columns, data),
                     RowidColumn(table.columns))

\* one execution of INSERT INTO <table> VALUES (?, ..., ?) with nparams
\* placeholders and the parameters data
EngineInsertRow(db, table_name, nparams, data) ==
    IF ~IsOneName(table_name) THEN EngineError(db, "syntax error")
    ELSE IF TableKey(table_name) \notin DOMAIN db THEN EngineError(db, "no such table")
    ELSE InsertInto(db, TableKey(table_name), db[TableKey(table_name)], nparams, data)

\* cursor.executemany: the statement runs once per row of the batch and
\* stops at the first row that fails, inside the same transaction
RECURSIVE EngineInsertMany(_, _, _, _)
InsertRest(first, table_name, nparams, rest) ==
    IF ~first.ok THEN first ELSE EngineInsertMany(first.db, table_name, nparams, rest)

EngineInsertMany(db, table_name, nparams, batch) ==
    IF batch = <<>> THEN EngineOk(db, <<>>, <<>>)
    ELSE InsertRest(EngineInsertRow(db, table_name, nparams, batch[1]),
                    table_name, nparams, Tail(batch))

DecodeRows(table) ==
    [r \in DOMAIN table.rows |->
        [i \in DOMAIN table.columns |->
            Decode(table.columns[i].type, table.rows[r].cells[i])]]

Fetched(db, decoded) ==
    IF \E r \in DOMAIN decoded : \E i \in DOMAIN decoded[r] : decoded[r][i].raised
    THEN EngineError(db, "converter raised ValueError")
    ELSE EngineOk(db, <<>>,
                  [r \in DOMAIN decoded |->
                      [i \in DOMAIN decoded[r] |-> decoded[r][i].value]])

\* SELECT * FROM <table_name>: the rows in rowid order, every value decoded
\* by its column's declared type; a converter that raises ends the fetch
EngineSelectAll(db, table_name) ==
    IF ~IsOneName(table_name) THEN EngineError(db, "syntax error")
    ELSE IF TableKey(table_name) \notin DOMAIN db THEN EngineError(db, "no such table")
    ELSE Fetched(db, DecodeRows(db[TableKey(table_name)]))

\* the raw statements the model sends through execute_query
EngineRaw(db, query) ==
    IF query.verb = "SELECT * FROM" THEN EngineSelectAll(db, query.table)
    ELSE EngineError(db, "syntax error")

(***************************************************************************)
(* Database: the instance state an operation works on is the record        *)
(*   con    the handle self._con: "None" or "Connection"                   *)
(*   file   the database file at self.path                                 *)
(*   open   the number of connections to the file that are open            *)
(*   trace  the lifecycle steps taken so far in the running call           *)
(*   log    the records the running call has handed to the logger          *)
(*   sql    the statements the running call has built                      *)
(***************************************************************************)
None == "None"

Connection == "Connection"

\* logger.debug / logger.info / logger.warning: the record, with the number
\* of lifecycle steps taken before it
Logged(st, level, message) ==
    [st EXCEPT !.log = Append(@, [level |-> level, message |-> message,
                                  at |-> Len(st.trace)])]

\* an f-string has built the text of a statement: the identifiers it
\* interpolates and the number of "?" it holds
Statement(verb, table_name, col_def, placeholders) ==
    [verb |-> verb, table |-> table_name, col_def |-> col_def,
     placeholders |-> placeholders]

Built(st, statement) == [st EXCEPT !.sql = Append(@, statement)]

\* a mutant of get_connection: a new connection is opened on every call
GetConnectionAlwaysOpens(st) ==
    [st EXCEPT !.con = Connection, !.open = @ + 1, !.trace = Append(@, "connect")]

get_connection(st) ==
    IF st.con # None
    THEN [Logged(st, "warning", "Connection already established.")
             EXCEPT !.trace = Append(@, "warn: already established")]
    ELSE [st EXCEPT !.con = Connection, !.open = @ + 1,
                    !.trace = Append(@, "connect")]

\* a mutant of close_connection: the connection is closed, the handle kept
CloseKeepsHandle(st) ==
    IF st.con = None
    THEN [Logged(st, "warning", "No connection to close.")
             EXCEPT !.trace = Append(@, "warn: nothing to close")]
    ELSE [st EXCEPT !.open = @ - 1, !.trace = Append(@, "close")]

close_connection(st) ==
    IF st.con = None
    THEN [Logged(st, "warning", "No connection to close.")
             EXCEPT !.trace = Append(@, "warn: nothing to close")]
    ELSE [st EXCEPT !.con = None, !.open = @ - 1, !.trace = Append(@, "close")]

\* a mutant of the transaction scope: what the failed statement wrote is kept
WithConNoRollback(st, r) ==
    [st EXCEPT !.file = r.db,
               !.trace = @ \o << "execute", IF r.ok THEN "commit" ELSE "rollback" >>]

\* "with con:" around one statement whose outcome is r: commit when the
\* body ends normally, roll back when it raises
WithCon(st, r) ==
    IF r.ok
    THEN [st EXCEPT !.file = r.db, !.trace = @ \o << "execute", "commit" >>]
    ELSE [st EXCEPT !.trace = @ \o << "execute", "rollback" >>]

\* how a call ends: exc is "none" or the error raised, named after the
\* error taxonomy (ValidationError and ArityMismatchError are ValueError,
\* SchemaNotFoundError is CommonSQLError, StoreExecutionError is an
\* sqlite3 error, ConverterError the ValueError of a converter); detail
\* tells the errors of one kind apart
Outcome(st, exc, detail, at, columns, rows, isNone) ==
    [st |-> st, exc |-> exc, detail |-> detail, at |-> at, columns |-> columns,
     rows |-> rows, isNone |-> isNone]

Return(st) == Outcome(st, "none", "none", 0, <<>>, <<>>, TRUE)

Raise(st, exc, detail) == Outcome(st, exc, detail, 0, <<>>, <<>>, TRUE)

\* "except Exception as error: raise error", or the statement's result
Propagate(st, r) ==
    IF ~r.ok
    THEN Raise(st, IF r.error = "converter raised ValueError"
                   THEN "ConverterError" ELSE "StoreExecutionError", r.error)
    ELSE Outcome(st, "none", "none", 0, r.columns, r.rows, FALSE)

\* a mutant of the try block: the connection is closed in the else branch
TryWithoutFinally(con, r) ==
    IF r.ok THEN Propagate(close_connection(WithCon(con, r)), r)
    ELSE Propagate(WithCon(con, r), r)

\* a mutant of the try block: the connection is closed before the statement
\* has been committed or rolled back, and the block forgets the failure
TrySwallows(con, r) ==
    Outcome(close_connection(WithCon(con, r)), "none", "none", 0, r.columns, r.rows,
            FALSE)

\* try: with con: <statement> / except: raise / finally: close_connection()
\* on the connection con, the statement having the outcome r
TryWithCon(con, r) == Propagate(close_connection(WithCon(con, r)), r)

\* a mutant of the else branch: the failure is logged before it is raised again
ElseLoggedAlways(st, r, level, message) ==
    IF r.ok THEN Logged(st, level, message) ELSE Logged(st, "error", r.error)

\* "else: logger.info(...) / logger.debug(...)": only when the body of the
\* try raised nothing
ElseLogged(st, r, level, message) == IF r.ok THEN Logged(st, level, message) ELSE st

\* try: with con: <statement> / except: raise / else: log / finally:
\* close_connection()
TryElseWithCon(con, r, level, message) ==
    Propagate(close_connection(ElseLogged(WithCon(con, r), r, level, message)), r)

\* a mutant of get_columns: an empty result is returned as it is
ColumnsEvenIfEmpty(out) == out

\* "if not columns: raise CommonSQLError(...)", after the connection is closed
ColumnsOrRaise(out) ==
    IF out.exc = "none" /\ out.columns = <<>>
    THEN Raise(out.st, "SchemaNotFoundError", "no columns")
    ELSE out

GetColumnsConnected(con, table_name) ==
    ColumnsOrRaise(TryWithCon(con, EnginePragma(con.file, table_name)))

\* a mutant of get_columns: the name goes into the statement as it came
GetColumnsUnsanitized(st, table_name) ==
    GetColumnsConnected(
        get_connection(Built(st, Statement("PRAGMA table_info", table_name, <<>>, 0))),
        table_name)

\* a mutant of get_columns: the connection is opened before the name is checked
GetColumnsConnectsFirst(st, table_name) ==
    IF _clean_query_injection(table_name).raised
    THEN Raise(get_connection(st), "ValidationError", "sanitizer")
    ELSE GetColumnsConnected(get_connection(st), table_name)

get_columns(st, table_name) ==
    IF _clean_query_injection(table_name).raised
    THEN Raise(st, "ValidationError", "sanitizer")
    ELSE GetColumnsConnected(
             get_connection(Built(st, Statement("PRAGMA table_info", table_name, <<>>, 0))),
             table_name)

\* "if response: return response", otherwise None
ResponseOrNone(out) == [out EXCEPT !.isNone = (out.rows = <<>>)]

ExecuteQueryConnected(con, query) ==
    ResponseOrNone(TryWithCon(con, EngineRaw(con.file, query)))

execute_query(st, query) == ExecuteQueryConnected(get_connection(st), query)

ReturnsNone(out) == [out EXCEPT !.isNone = TRUE]

CreateTableConnected(con, table_name, col_def) ==
    ReturnsNone(TryElseWithCon(con, EngineCreate(con.file, table_name, col_def),
                               "info", "Table created successfully."))

\* logger.info('Creating table ...') and the text of the CREATE statement
CreateTableBuilt(st, table_name, col_def) ==
    Built(Logged(st, "info", "Creating table..."),
          Statement("CREATE TABLE IF NOT EXISTS", table_name, col_def, 0))

CreateTableFormatted(st, table_name, fmt) ==
    IF fmt.err.raised
    THEN Outcome(st, "ValidationError", fmt.err.kind, fmt.err.at, <<>>, <<>>, TRUE)
    ELSE CreateTableConnected(get_connection(CreateTableBuilt(st, table_name, fmt.col_def)),
                              table_name, fmt.col_def)

\* a mutant of create_table: the connection is opened before the declaration
\* is validated, and the CREATE statement for the checked columns is sent
CreateTableConnectsFirst(st, table_name, columns) ==
    IF _clean_query_injection(table_name).raised
    THEN Raise(st, "ValidationError", "sanitizer")
    ELSE CreateTableFormatted(get_connection(st), table_name,
                              _format_column_declaration(columns))

create_table(st, table_name, columns) ==
    IF _clean_query_injection(table_name).raised
    THEN Raise(st, "ValidationError", "sanitizer")
    ELSE CreateTableFormatted(st, table_name, _format_column_declaration(columns))

\* the INSERT statement with one "?" per reflected column, and num_cols
PreparedQuery(g) == [out |-> g, num_cols |-> Len(g.columns), placeholders |-> Len(g.columns)]

\* a mutant of the statement builder: one placeholder too few
PreparedQueryShort(g) ==
    [out |-> g, num_cols |-> Len(g.columns), placeholders |-> Len(g.columns) - 1]

\* the text of the INSERT statement and logger.debug('Prepared insertion
\* query ...'), once get_columns has returned
QueryBuilt(q, table_name) ==
    IF q.out.exc # "none" THEN q
    ELSE [q EXCEPT !.out.st =
              Logged(Built(@, Statement("INSERT INTO", table_name, <<>>, q.placeholders)),
                     "debug", "Prepared insertion query.")]

prepare_insertion_query(st, table_name) ==
    QueryBuilt(PreparedQuery(get_columns(st, table_name)), table_name)

\* a mutant of prepare_insertion: the width of the row is not compared
ArityUnchecked(q, data) == q

\* "if len(data) != num_cols: raise ValueError(...)"
ArityChecked(q, data) ==
    IF q.out.exc # "none" THEN q
    ELSE IF Len(data) # q.num_cols
    THEN [q EXCEPT !.out = Raise(q.out.st, "ArityMismatchError", "row width")]
    ELSE q

prepare_insertion(st, table_name, data) ==
    IF _clean_query_injection(table_name).raised
    THEN PreparedQuery(Raise(st, "ValidationError", "sanitizer"))
    ELSE ArityChecked(prepare_insertion_query(st, table_name), data)

InsertConnected(con, table_name, placeholders, data) ==
    ReturnsNone(TryElseWithCon(con,
                               EngineInsertRow(con.file, table_name, placeholders, data),
                               "debug", "Data inserted successfully."))

InsertPrepared(p, table_name, data) ==
    IF p.out.exc # "none" THEN ReturnsNone(p.out)
    ELSE InsertConnected(Logged(get_connection(p.out.st), "debug", "Inserting data..."),
                         table_name, p.placeholders, data)

\* a mutant of insert: the columns are reflected once more before the row
\* is prepared
InsertReflectsTwice(st, table_name, data) ==
    InsertPrepared(prepare_insertion(get_columns(st, table_name).st, table_name, data),
                   table_name, data)

insert(st, table_name, data) ==
    InsertPrepared(prepare_insertion(st, table_name, data), table_name, data)

InsertManyConnected(con, table_name, placeholders, data) ==
    ReturnsNone(TryElseWithCon(con,
                               EngineInsertMany(con.file, table_name, placeholders, data),
                               "debug", "Data inserted successfully."))

InsertManyPrepared(p, table_name, data) ==
    IF p.out.exc # "none" THEN ReturnsNone(p.out)
    ELSE InsertManyConnected(Logged(get_connection(p.out.st), "debug", "Inserting data..."),
                             table_name, p.placeholders, data)

\* a mutant of insert_many: the width is taken from the last row of the batch
InsertManyChecksLastRow(st, table_name, data) ==
    IF data = <<>> THEN Raise(st, "IndexError", "empty batch")
    ELSE InsertManyPrepared(prepare_insertion(st, table_name, data[Len(data)]),
                            table_name, data)

\* a mutant of insert_many: the batch is prepared before its first row is read
InsertManyPreparesFirst(st, table_name, data) ==
    IF data = <<>>
    THEN Raise(prepare_insertion_query(st, table_name).out.st, "IndexError", "empty batch")
    ELSE InsertManyPrepared(prepare_insertion(st, table_name, data[1]), table_name, data)

\* data[0] raises IndexError on an empty batch before anything else runs
insert_many(st, table_name, data) ==
    IF data = <<>> THEN Raise(st, "IndexError", "empty batch")
    ELSE InsertManyPrepared(prepare_insertion(st, table_name, data[1]), table_name, data)

(***************************************************************************)
(* Bounds and the inputs the caller draws from                             *)
(***************************************************************************)
\* most rows a table holds before the caller stops inserting into it
MaxRows == 2

\* longest text over SanitizerAlphabet handed to the sanitizer
MaxIdentLen == 3

\* longest text put before and after a keyword handed to the sanitizer
MaxPad == 1

NameT == << "t" >>

NameKeyword == << "D","r","o","p" >>

NameTwoWords == << "a"," ","b" >>

TableNames == { NameT, NameKeyword, NameTwoWords }

Col(name, type) == [name |-> name, type |-> type]

LowerINTEGERPRIMARYKEY == Lower(Join(<< TypeINTEGER, ConstraintPRIMARYKEY >>, <<" ">>))

TypeFOOBAR == << "F","O","O","B","A","R" >>

\* events(id integer primary key, at datetime), the types in lower case
DeclEvents ==
    << Col(<<"i","d">>, LowerINTEGERPRIMARYKEY), Col(<<"a","t">>, Lower(TypeDATETIME)) >>

DeclOne == << Col(<<"a">>, <<"I","n","t","e","g","e","r">>) >>

DeclBadType == << Col(<<"c">>, TypeFOOBAR) >>

DeclBadLater == << Col(<<"a">>, TypeINTEGER), Col(<<"c">>, TypeFOOBAR) >>

DeclBadNameFirst == << Col(<<"d","r","o","p">>, TypeINTEGER), Col(<<"c">>, TypeFOOBAR) >>

DeclBadNameAndType == << Col(<<"d","r","o","p">>, TypeFOOBAR) >>

DeclEmpty == << >>

DeclReserved == << Col(<< "o","r","d","e","r" >>, TypeINTEGER) >>

DeclTwoKeys ==
    << Col(<<"a">>, Join(<< TypeINTEGER, ConstraintPRIMARYKEY >>, <<" ">>)),
       Col(<<"b">>, Join(<< TypeTEXT, ConstraintPRIMARYKEY >>, <<" ">>)) >>

Declarations ==
    { DeclEvents, DeclOne, DeclBadType, DeclBadLater, DeclBadNameFirst,
      DeclBadNameAndType, DeclEmpty, DeclTwoKeys, DeclReserved }

T1 == MkDatetime(2024, 6, 24, 20, 37, 43, 0)

T2 == MkDatetime(2024, 6, 24, 20, 37, 43, 250)

\* rows of width 0 to 3: timestamps and integers in either kind of column
Rows ==
    { << >>,
      << PyInt(1) >>, << PyInt(2) >>, << PyDatetime(T1) >>,
      << PyInt(1), PyDatetime(T1) >>, << PyInt(2), PyDatetime(T2) >>,
      << PyInt(1), PyInt(2) >>, << PyDatetime(T1), PyDatetime(T2) >>,
      << PyInt(1), PyDatetime(T1), PyInt(2) >> }

RowOne == << PyInt(1), PyDatetime(T1) >>

RowTwo == << PyInt(2), PyDatetime(T2) >>

RowShort == << PyInt(1) >>

\* batches for insert_many: empty, one row, two rows, a repeated key, and a
\* row of another width first or last
Batches ==
    { << >>, << RowOne >>, << RowShort >>, << RowOne, RowTwo >>, << RowOne, RowOne >>,
      << RowOne, RowShort >>, << RowShort, RowOne >> }

NoQuery == [verb |-> "none", table |-> <<>>]

Queries ==
    { [verb |-> "SELECT * FROM", table |-> NameT],
      [verb |-> "SELECT * FROM", table |-> NameTwoWords],
      [verb |-> "SELEKT", table |-> NameT] }

(***************************************************************************)
(* State                                                                   *)
(***************************************************************************)
VARIABLES
    _con,         \* Database._con: None or the open connection
    file,         \* the tables of the database file
    connections,  \* how many connections to the file are open
    call,         \* the last call made on the instance, with its arguments
    result,       \* how that call ended: exception and returned value
    trace,        \* the lifecycle steps that call took, in order
    inserted,     \* per table, the rows successful inserts handed over, in order
    log,          \* the records that call handed to the logger, in order
    sql,          \* the statements that call built, in order
    value,        \* the text handed to the sanitizer
    cleaned,      \* what the sanitizer made of it
    codec         \* a temporal value on its way through adapter and converter

vars == << _con, file, connections, call, result, trace, inserted, log, sql, value,
          cleaned, codec >>

Call(op, table_name, columns, data, query) ==
    [op |-> op, table_name |-> table_name, columns |-> columns, data |-> data,
     query |-> query]

NoResult ==
    [exc |-> "none", detail |-> "none", at |-> 0, columns |-> <<>>, rows |-> <<>>,
     isNone |-> TRUE]

NotCleaned == [done |-> FALSE, raised |-> FALSE, value |-> <<>>]

\* a value (from "value") or a stored text (from "text") of the declared
\* type key, the text the adapter wrote, and what the converter made of it
Codec(phase, from, key, v, text, raised, decoded) ==
    [phase |-> phase, from |-> from, key |-> key, v |-> v, text |-> text,
     raised |-> raised, decoded |-> decoded]

NoCodec == Codec("none", "none", <<>>, PyInt(0), <<>>, FALSE, PyInt(0))

\* Database.__init__ on a file that does not exist yet (or delete_existing)
Init ==
    /\ _con = None
    /\ file = EmptyDb
    /\ connections = 0
    /\ call = Call("__init__", <<>>, <<>>, <<>>, NoQuery)
    /\ result = NoResult
    /\ trace = <<>>
    /\ inserted = EmptyDb
    /\ log = <<>>
    /\ sql = <<>>
    /\ value = <<>>
    /\ cleaned = NotCleaned
    /\ codec = NoCodec

\* the instance as a call finds it
Self ==
    [con |-> _con, file |-> file, open |-> connections, trace |-> <<>>, log |-> <<>>,
     sql |-> <<>>]

RowCount(table_name) ==
    IF TableExists(file, table_name) THEN Len(file[TableKey(table_name)].rows) ELSE 0

\* the rows handed over so far, with those of a successful insert appended
Inserted(newFile, table_name, rows) ==
    [key \in DOMAIN newFile |->
        (IF key \in DOMAIN inserted THEN inserted[key] ELSE <<>>)
            \o (IF IsOneName(table_name) /\ key = TableKey(table_name)
                THEN rows ELSE <<>>)]

\* the call has run to its end: the instance, the file and what the caller sees
Finish(c, out, rows) ==
    /\ _con' = out.st.con
    /\ file' = out.st.file
    /\ connections' = out.st.open
    /\ trace' = out.st.trace
    /\ log' = out.st.log
    /\ sql' = out.st.sql
    /\ call' = c
    /\ result' = [exc |-> out.exc, detail |-> out.detail, at |-> out.at,
                  columns |-> out.columns, rows |-> out.rows, isNone |-> out.isNone]
    /\ inserted' = Inserted(out.st.file, c.table_name,
                            IF out.exc = "none" THEN rows ELSE <<>>)
    /\ UNCHANGED << value, cleaned, codec >>

CreateTable ==
    \E table_name \in TableNames, columns \in Declarations :
        Finish(Call("create_table", table_name, columns, <<>>, NoQuery),
               create_table(Self, table_name, columns), <<>>)

GetColumns ==
    \E table_name \in TableNames :
        Finish(Call("get_columns", table_name, <<>>, <<>>, NoQuery),
               get_columns(Self, table_name), <<>>)

Insert ==
    \E table_name \in TableNames, data \in Rows :
        /\ RowCount(table_name) < MaxRows
        /\ Finish(Call("insert", table_name, <<>>, << data >>, NoQuery),
                  insert(Self, table_name, data), << data >>)

InsertMany ==
    \E table_name \in TableNames, data \in Batches :
        /\ RowCount(table_name) + Len(data) <= MaxRows
        /\ Finish(Call("insert_many", table_name, <<>>, data, NoQuery),
                  insert_many(Self, table_name, data), data)

ExecuteQuery ==
    \E query \in Queries :
        Finish(Call("execute_query", query.table, <<>>, <<>>, query),
               execute_query(Self, query), <<>>)

\* the caller takes the connection itself
GetConnection ==
    Finish(Call("get_connection", <<>>, <<>>, <<>>, NoQuery),
           Return(get_connection(Self)), <<>>)

CloseConnection ==
    Finish(Call("close_connection", <<>>, <<>>, <<>>, NoQuery),
           Return(close_connection(Self)), <<>>)

Next ==
    \/ CreateTable
    \/ GetColumns
    \/ Insert
    \/ InsertMany
    \/ ExecuteQuery
    \/ GetConnection
    \/ CloseConnection

Spec == Init /\ [][Next]_vars

(***************************************************************************)
(* The sanitizer on its own: one text is drawn and cleaned.                *)
(***************************************************************************)
SanitizerAlphabet == { "a", "Z", "7", "_", " ", "-" }

\* upper case, lower case and capitalised spellings of a keyword
Spellings(kw) == { kw, Upper(kw), << UpperChar(kw[1]) >> \o Tail(kw) }

\* a keyword, or a keyword short of its last letter, with text around it
KeywordCores ==
    UNION { Spellings(kw) \cup { SubSeq(kw, 1, Len(kw) - 1) } : kw \in BannedKeywords }

Padded(pads, cores) == { pre \o core \o post : pre \in pads, core \in cores, post \in pads }

KeywordTexts == Padded(SeqsUpTo(SanitizerAlphabet, MaxPad), KeywordCores)

SanitizerInputs == SeqsUpTo(SanitizerAlphabet, MaxIdentLen) \cup KeywordTexts

InitSanitizer ==
    /\ _con = None
    /\ file = EmptyDb
    /\ connections = 0
    /\ call = Call("__init__", <<>>, <<>>, <<>>, NoQuery)
    /\ result = NoResult
    /\ trace = <<>>
    /\ inserted = EmptyDb
    /\ log = <<>>
    /\ sql = <<>>
    /\ value \in SanitizerInputs
    /\ cleaned = NotCleaned
    /\ codec = NoCodec

CleanQueryInjection ==
    /\ ~cleaned.done
    /\ cleaned' = [done |-> TRUE, raised |-> _clean_query_injection(value).raised,
                   value |-> _clean_query_injection(value).value]
    /\ UNCHANGED << _con, file, connections, call, result, trace, inserted, log, sql,
                    value, codec >>

NextSanitizer == CleanQueryInjection

SpecSanitizer == InitSanitizer /\ [][NextSanitizer]_vars

(***************************************************************************)
(* The codecs on their own: a date, timestamp or duration is adapted and   *)
(* the text converted back; a text found in a TIMEDELTA column is          *)
(* converted.                                                              *)
(***************************************************************************)
\* durations of -MaxDays to MaxDays days
MaxDays == 2

\* most comma-separated fields of a text found in a TIMEDELTA column
MaxFields == 4

CodecYears == { 1, 999, 2024, 9999 }

CodecDates ==
    { d \in { MkDate(y, mo, dd) : y \in CodecYears, mo \in { 1, 2, 12 },
                                  dd \in { 1, 9, 29, 31 } } :
        d.day <= DaysInMonth(d.year, d.month) }

CodecDatetimes ==
    { MkDatetime(d.year, d.month, d.day, h, mi, sec, us) :
        d \in { c \in CodecDates : c.day \in { 1, 29 } },
        h \in { 0, 23 }, mi \in { 0, 59 }, sec \in { 0, 59 },
        us \in { 0, 1, 250000, 999999 } }

CodecTimedeltas ==
    { MkTimedelta(d, sec, us) :
        d \in (0 - MaxDays)..MaxDays \cup { 0 - 999999999, 999999999 },
        sec \in { 0, 1, 86399 }, us \in { 0, 1, 999999 } }

CodecValues ==
    { PyDate(d) : d \in CodecDates } \cup { PyDatetime(dt) : dt \in CodecDatetimes }
        \cup { PyTimedelta(td) : td \in CodecTimedeltas }

\* fields as the adapter writes them, with a plus sign, with spaces around,
\* with an underscore, empty, and not integers
FieldTexts ==
    { <<"1">>, <<"-","1">>, <<"+","1">>, <<" ","1"," ">>, <<"1","_","0">>, <<>>,
      <<"a">>, <<"1",".","5">> }

DurationTexts == { Join(fields, <<",">>) : fields \in SeqsUpTo(FieldTexts, MaxFields) }

\* the declared type the converter of a value is registered under
KeyOf(v) ==
    IF v.k = "datetime" THEN TypeDATETIME
    ELSE IF v.k = "date" THEN TypeDATE
    ELSE TypeTIMEDELTA

InitCodec ==
    /\ _con = None
    /\ file = EmptyDb
    /\ connections = 0
    /\ call = Call("__init__", <<>>, <<>>, <<>>, NoQuery)
    /\ result = NoResult
    /\ trace = <<>>
    /\ inserted = EmptyDb
    /\ log = <<>>
    /\ sql = <<>>
    /\ value = <<>>
    /\ cleaned = NotCleaned
    /\ codec \in { Codec("value", "value", KeyOf(v), v, <<>>, FALSE, PyInt(0)) :
                      v \in CodecValues }
                \cup { Codec("text", "text", TypeTIMEDELTA, PyInt(0), t, FALSE, PyInt(0)) :
                          t \in DurationTexts }

\* the adapter registered for the type of the value writes its text
AdaptValue ==
    /\ codec.phase = "value"
    /\ codec' = [codec EXCEPT !.phase = "text", !.text = AdaptedText(codec.v)]
    /\ UNCHANGED << _con, file, connections, call, result, trace, inserted, log, sql,
                    value, cleaned >>

\* the converter registered for the declared type reads the text
ConvertText ==
    /\ codec.phase = "text"
    /\ codec' = [codec EXCEPT
                    !.phase = "done",
                    !.raised = DecodeWith(codec.key, SqlText(codec.text)).raised,
                    !.decoded = DecodeWith(codec.key, SqlText(codec.text)).value]
    /\ UNCHANGED << _con, file, connections, call, result, trace, inserted, log, sql,
                    value, cleaned >>

NextCodec == AdaptValue \/ ConvertText

SpecCodec == InitCodec /\ [][NextCodec]_vars

(***************************************************************************)
(* Properties                                                              *)
(***************************************************************************)
\* the operations that talk to the store
StoreOperations == { "create_table", "get_columns", "insert", "insert_many", "execute_query" }

Acquisitions == { "connect", "warn: already established" }

\* steps 4k+1 .. 4k+4 of a trace are acquire, execute, commit or roll back, release
IsScopedBlock(t, k) ==
    /\ t[4 * k + 1] \in Acquisitions
    /\ t[4 * k + 2] = "execute"
    /\ t[4 * k + 3] \in { "commit", "rollback" }
    /\ t[4 * k + 4] = "close"

\* the trace is a sequence of scoped blocks, none but the last rolled back
IsScoped(t) ==
    /\ Len(t) % 4 = 0
    /\ \A k \in 0..((Len(t) \div 4) - 1) :
          /\ IsScopedBlock(t, k)
          /\ 4 * k + 4 < Len(t) => t[4 * k + 3] = "commit"

LastStep(t) == t[Len(t)]

\* C1, as claimed: every exit path of a store operation, validation failure
\* included, ends with the release of the connection (close_connection as
\* the last step, the handle None).
C1_ReleaseOnEveryExit ==
    call.op \in StoreOperations =>
        /\ trace # <<>>
        /\ LastStep(trace) = "close"
        /\ _con = None

\* C1, amended: a store operation runs acquire, execute, commit or roll
\* back, release for every connection it acquires; a call that acquired a
\* connection ends with the release as its last lifecycle step and the
\* handle None, rolled back exactly when the statement failed; a call that
\* fails validation (or insert_many on an empty batch) acquires nothing and
\* releases nothing.
C1_ScopedRelease ==
    call.op \in StoreOperations =>
        /\ IsScoped(trace)
        /\ (trace = <<>>) <=> (result.exc \in { "ValidationError", "IndexError" })
        /\ trace # <<>> =>
              /\ LastStep(trace) = "close"
              /\ _con = None
              /\ (trace[Len(trace) - 1] = "rollback")
                    <=> (result.exc \in { "StoreExecutionError", "ConverterError" })

\* C1 witness: an insert whose statement failed was rolled back and released.
C1_Witness ==
    /\ call.op = "insert"
    /\ result.exc = "StoreExecutionError"
    /\ Len(trace) = 8
    /\ trace[7] = "rollback"
    /\ LastStep(trace) = "close"

\* C2: between calls the handle is None after any sequence of store
\* operations: no store operation turns a None handle into a connection,
\* and a store operation that acquired a connection returns with the handle
\* None (only the caller's own get_connection leaves it set).
C2_HandleNoneBetweenCalls ==
    [][ call'.op \in StoreOperations =>
            /\ _con = None => _con' = None
            /\ trace' # <<>> => _con' = None ]_vars

\* C2 witness: get_columns found the caller's connection open and returned
\* with the handle None.
C2_Witness ==
    /\ call.op = "get_columns"
    /\ trace # <<>>
    /\ trace[1] = "warn: already established"
    /\ _con = None

HasBadType(columns) ==
    \E i \in DOMAIN columns : Upper(columns[i].type) \notin DB_DATA_TYPES_ALLOWED

FirstBadType(columns) ==
    CHOOSE i \in DOMAIN columns :
        /\ Upper(columns[i].type) \notin DB_DATA_TYPES_ALLOWED
        /\ \A j \in 1..(i - 1) : Upper(columns[j].type) \in DB_DATA_TYPES_ALLOWED

Rejected(text) == DB_INJECTION_PATTERN(text)

HasRejectedText(columns) ==
    \E i \in DOMAIN columns : Rejected(columns[i].name) \/ Rejected(Upper(columns[i].type))

\* the call (with a batch that is not empty) hands over a table name, a
\* column name or a type token that must not reach SQL text
FailsValidation(c) ==
    /\ c.op \in { "create_table", "get_columns", "insert", "insert_many" }
    /\ c.op = "insert_many" => c.data # <<>>
    /\ \/ Rejected(c.table_name)
       \/ c.op = "create_table" /\ (HasBadType(c.columns) \/ HasRejectedText(c.columns))

\* C3: a call ends with ValidationError exactly when a table name, column
\* name or type token fails the sanitizer or the vocabulary, and then no
\* connection was opened, no statement executed, and handle, connections
\* and store are as before the call.
C3_ValidationBeforeConnection ==
    [][ /\ FailsValidation(call') <=> (result'.exc = "ValidationError")
        /\ result'.exc = "ValidationError" =>
              /\ trace' = <<>>
              /\ _con' = _con
              /\ connections' = connections
              /\ file' = file ]_vars

\* C3 witness: create_table failed on the vocabulary while the caller held
\* a connection and the store had a table.
C3_Witness ==
    /\ call.op = "create_table"
    /\ result.exc = "ValidationError"
    /\ result.detail = "vocabulary"
    /\ _con = Connection
    /\ file # EmptyDb

\* C4: insert into an existing table with a row whose width differs from
\* the number of reflected columns ends with ArityMismatchError after the
\* reflection alone (the INSERT statement is not executed) and leaves the
\* store, hence the table's rows, as it was.
C4_ArityMismatchNoWrite ==
    [][ ( /\ call'.op = "insert"
          /\ TableExists(file, call'.table_name)
          /\ Len(call'.data[1]) # Len(file[TableKey(call'.table_name)].columns) )
        => /\ result'.exc = "ArityMismatchError"
           /\ Len(trace') = 4
           /\ file' = file ]_vars

\* C4 witness: an insert of the wrong width into a table that has a row.
C4_Witness ==
    /\ call.op = "insert"
    /\ result.exc = "ArityMismatchError"
    /\ TableExists(file, call.table_name)
    /\ file[TableKey(call.table_name)].rows # <<>>

\* C5: get_columns with a name that passes the sanitizer and is one word
\* ends with SchemaNotFoundError when the table was never created, the
\* connection closed when the error reaches the caller; on an existing
\* table it returns the columns in order, and prepare_insertion_query
\* reports their number as the arity, with as many placeholders.
C5_ReflectColumns ==
    ( /\ call.op = "get_columns"
      /\ ~Rejected(call.table_name)
      /\ IsOneName(call.table_name) )
    => /\ _con = None
       /\ connections = 0
       /\ IF TableExists(file, call.table_name)
          THEN /\ result.exc = "none"
               /\ result.columns = file[TableKey(call.table_name)].columns
               /\ \A i \in DOMAIN result.columns : result.columns[i].cid = i - 1
               /\ prepare_insertion_query(Self, call.table_name).num_cols
                      = Len(result.columns)
               /\ prepare_insertion_query(Self, call.table_name).placeholders
                      = Len(result.columns)
          ELSE /\ result.exc = "SchemaNotFoundError"
               /\ result.columns = <<>>

\* C5 witness: reflection of a missing table, called while the caller held
\* a connection, ended with SchemaNotFoundError and the connection closed.
C5_Witness ==
    /\ call.op = "get_columns"
    /\ result.exc = "SchemaNotFoundError"
    /\ trace[1] = "warn: already established"
    /\ _con = None

NamesCleanBefore(columns, i) == \A j \in 1..(i - 1) : ~Rejected(columns[j].name)

\* C6: create_table with a declaration holding a type token that is not in
\* the vocabulary after upper-casing ends with ValidationError, executes no
\* statement and leaves the store as it was, also when earlier columns were
\* valid; the error is the one listing the allowed set, raised on the first
\* such column, unless the sanitizer has rejected the table name or the
\* name of an earlier column before.  A declaration whose types are in the
\* vocabulary only after upper-casing is not rejected.
C6_VocabularyViolation ==
    [][ call'.op = "create_table" =>
          /\ HasBadType(call'.columns) =>
                /\ result'.exc = "ValidationError"
                /\ trace' = <<>>
                /\ file' = file
                /\ ( /\ ~Rejected(call'.table_name)
                     /\ NamesCleanBefore(call'.columns, FirstBadType(call'.columns)) )
                   => /\ result'.detail = "vocabulary"
                      /\ result'.at = FirstBadType(call'.columns)
          /\ result'.detail = "vocabulary" => HasBadType(call'.columns) ]_vars

\* C6 witness: the violation sat in the second column, after a valid one,
\* and no table was left behind.
C6_Witness ==
    /\ call.op = "create_table"
    /\ call.columns = DeclBadLater
    /\ call.table_name = NameT
    /\ result.detail = "vocabulary"
    /\ result.at = 2
    /\ file = EmptyDb

\* the second of two create_table calls with the same arguments, run in
\* the state the first has left
SecondCallIsNoOp(second, table_name) ==
    /\ second.exc = "none"
    /\ second.st.file = file
    /\ get_columns(Self, table_name).exc = "none"
    /\ get_columns(second.st, table_name).exc = "none"
    /\ get_columns(second.st, table_name).columns
           = get_columns(Self, table_name).columns

\* C7: create_table is idempotent: after a create_table that raised no
\* error, the same call again raises no error and get_columns returns the
\* same schema before and after it; a create_table on a table that exists
\* leaves the store, the table's rows included, as it was.
C7_CreateTableIdempotent ==
    /\ [] ( (call.op = "create_table" /\ result.exc = "none")
            => SecondCallIsNoOp(create_table(Self, call.table_name, call.columns),
                                call.table_name) )
    /\ [][ ( /\ call'.op = "create_table"
             /\ result'.exc = "none"
             /\ TableExists(file, call'.table_name) )
           => file' = file ]_vars

\* C7 witness: create_table has returned without error on a table that
\* holds a row.
C7_Witness ==
    /\ call.op = "create_table"
    /\ result.exc = "none"
    /\ TableExists(file, call.table_name)
    /\ file[TableKey(call.table_name)].rows # <<>>

IsSelectAll(c) ==
    /\ c.op = "execute_query"
    /\ c.query.verb = "SELECT * FROM"
    /\ TableExists(file, c.query.table)

MatchesDeclared(type, v) ==
    IF ConverterKey(type) = TypeDATETIME THEN v.k = "datetime"
    ELSE IF ConverterKey(type) = TypeDATE THEN v.k = "date"
    ELSE IF ConverterKey(type) = TypeTIMEDELTA THEN v.k = "timedelta"
    ELSE IF Affinity(type) = "INTEGER" THEN v.k = "int"
    ELSE IF Affinity(type) = "REAL" THEN v.k = "float"
    ELSE IF Affinity(type) = "TEXT" THEN v.k = "str"
    ELSE v.k \in { "int", "float", "str" }

AllMatchDeclared(columns, rows) ==
    \A r \in DOMAIN rows : \A i \in DOMAIN columns :
        MatchesDeclared(columns[i].type, rows[r][i])

\* rows in ascending order of the integer in column rc
AscendingBy(rows, rc) ==
    [i \in DOMAIN rows |->
        CHOOSE row \in Range(rows) :
            Cardinality({ other \in Range(rows) : other[rc].n < row[rc].n }) = i - 1]

\* insertion order, or ascending key when a column is INTEGER PRIMARY KEY
InStoredOrder(columns, rows) ==
    IF RowidColumn(columns) = 0 THEN rows ELSE AscendingBy(rows, RowidColumn(columns))

RowsAsStored(table, rows) ==
    /\ Len(table.rows) = Len(rows)
    /\ AllMatchDeclared(table.columns, rows) =>
          /\ result.exc = "none"
          /\ result.rows = InStoredOrder(table.columns, rows)

OccursAt(text, kw, i) ==
    /\ i + Len(kw) - 1 <= Len(text)
    /\ \A j \in DOMAIN kw : LowerChar(text[i + j - 1]) = kw[j]

HasBannedKeyword(text) ==
    \E kw \in BannedKeywords : \E i \in DOMAIN text : OccursAt(text, kw, i)

\* ^[A-Za-z][A-Za-z0-9_]*$
IsPlainIdentifier(text) ==
    /\ text # <<>>
    /\ text[1] \in Letters
    /\ \A i \in DOMAIN text : text[i] \in Letters \cup Digits \cup {"_"}

\* C9: the sanitizer rejects every text that holds a banned keyword in any
\* letter case, and returns unchanged every text matching
\* ^[A-Za-z][A-Za-z0-9_]*$ that holds none.
C9_KeywordsRejected ==
    cleaned.done =>
        /\ HasBannedKeyword(value) => cleaned.raised
        /\ (IsPlainIdentifier(value) /\ ~HasBannedKeyword(value))
              => (~cleaned.raised /\ cleaned.value = value)

\* C9 witness: a keyword in mixed letter case inside an otherwise plain
\* identifier was rejected.
C9_Witness ==
    /\ cleaned.done
    /\ cleaned.raised
    /\ IsPlainIdentifier(value)
    /\ HasBannedKeyword(value)
    /\ \A kw \in BannedKeywords : ~Contains(value, kw) /\ ~Contains(value, Upper(kw))

\* C10: the sanitizer rejects every text (of one character or more) made
\* of digits and underscores alone, and every text holding a character that
\* is neither a word character nor a space.
C10_DigitsAndPunctuationRejected ==
    cleaned.done =>
        /\ (value # <<>> /\ \A i \in DOMAIN value : value[i] \in Digits \cup {"_"})
              => cleaned.raised
        /\ (\E i \in DOMAIN value : value[i] \notin WordChars \cup {" "})
              => cleaned.raised

\* C10 witness: a text of digits and underscores that mixes the two was
\* rejected.
C10_Witness ==
    /\ cleaned.done
    /\ cleaned.raised
    /\ Len(value) >= 2
    /\ \A i \in DOMAIN value : value[i] \in Digits \cup {"_"}
    /\ \E i \in DOMAIN value : value[i] = "_"
    /\ \E i \in DOMAIN value : value[i] \in Digits

\* C11: a date, a timestamp (with its microseconds) or a duration (zero
\* and negative ones included) that the adapter has written and the
\* converter has read back is the value it was; the text of a duration is
\* its days, seconds and microseconds, in this order, separated by commas.
C11_CodecRoundTrip ==
    (codec.phase = "done" /\ codec.from = "value") =>
        /\ ~codec.raised
        /\ codec.decoded = codec.v
        /\ codec.v.k = "timedelta" =>
              SplitOn(codec.text, ",")
                  = << IntText(codec.v.td.days), IntText(codec.v.td.seconds),
                       IntText(codec.v.td.microseconds) >>

\* C11 witness: a negative duration with seconds and microseconds has made
\* the round trip.
C11_Witness ==
    /\ codec.phase = "done"
    /\ codec.from = "value"
    /\ codec.v.k = "timedelta"
    /\ codec.v.td.days < 0
    /\ codec.v.td.seconds = 86399
    /\ codec.v.td.microseconds = 999999
    /\ codec.decoded = codec.v

\* a statement of the call has raised inside "with con:"
EngineFailed(t) == \E i \in DOMAIN t : t[i] = "rollback"

\* a record was handed to the logger after the statement had raised
FailureLogged(records, t) == \E i \in DOMAIN records : records[i].at >= Len(t) - 1

EngineFailures == { "StoreExecutionError", "ConverterError" }

\* the failure reaches the caller as the engine raised it, what the
\* transaction wrote is rolled back and the connection is released
FailurePropagated ==
    /\ result'.exc \in EngineFailures
    /\ result'.detail # "none"
    /\ file' = file
    /\ trace'[Len(trace') - 1] = "rollback"
    /\ LastStep(trace') = "close"
    /\ _con' = None
    /\ connections' = 0

\* C12, as claimed: a failure raised by the engine during a store operation
\* is logged and raised again to the caller unchanged; the transaction is
\* rolled back, so that the store is as before the call, and the connection
\* is released.
C12_EngineFailureLogged ==
    [][ (call'.op \in StoreOperations /\ EngineFailed(trace'))
        => (FailurePropagated /\ FailureLogged(log', trace')) ]_vars

\* C12, amended: a failure raised by the engine during a store operation is
\* raised again to the caller unchanged, never swallowed, and no record of
\* it is written to the log; the transaction is rolled back, so that the
\* store is as before the call, and the connection is released.
C12_EngineFailurePropagated ==
    [][ (call'.op \in StoreOperations /\ EngineFailed(trace'))
        => (FailurePropagated /\ ~FailureLogged(log', trace')) ]_vars

\* C12 witness: an insert into a table with rows failed on the primary key
\* and left the log with the records written before the statement ran.
C12_Witness ==
    /\ call.op = "insert"
    /\ result.exc = "StoreExecutionError"
    /\ result.detail = "UNIQUE constraint failed"
    /\ log # <<>>
    /\ ~FailureLogged(log, trace)
    /\ _con = None

Count(t, step) == Cardinality({ i \in DOMAIN t : t[i] = step })

TableOperations == { "create_table", "get_columns", "insert", "insert_many" }

\* C13, as claimed: during one call of create_table, get_columns, insert or
\* insert_many a connection is opened at most once and closed at most once.
C13_OneAcquisitionPerCall ==
    call.op \in TableOperations =>
        /\ Count(trace, "connect") <= 1
        /\ Count(trace, "close") <= 1

\* a connection is open only between an acquisition and the next release
OneAtATime(t) ==
    \A i, j \in DOMAIN t :
        (i < j /\ t[i] \in Acquisitions /\ t[j] \in Acquisitions)
            => \E k \in (i + 1)..(j - 1) : t[k] = "close"

\* C13, amended: during one call of create_table or get_columns a
\* connection is opened at most once and closed at most once; insert and
\* insert_many acquire a connection twice when the reflection of the
\* columns succeeds and the row has their number, first for the reflection
\* and, after that connection is closed, again for the insertion; no call
\* has two connections open at once.
C13_AcquisitionsPerCall ==
    call.op \in TableOperations =>
        /\ OneAtATime(trace)
        /\ Count(trace, "connect") <= Count(trace, "close")
        /\ call.op \in { "create_table", "get_columns" } => Count(trace, "close") <= 1
        /\ call.op \in { "insert", "insert_many" } =>
              /\ Count(trace, "close") <= 2
              /\ (Count(trace, "close") = 2)
                    <=> (result.exc \in { "none", "StoreExecutionError" }
                         /\ Len(trace) = 8)
              /\ Count(trace, "close") = 2 =>
                    (trace[4] = "close" /\ trace[5] = "connect")

\* C13 witness: an insert that returned had opened and closed a connection
\* twice.
C13_Witness ==
    /\ call.op = "insert"
    /\ result.exc = "none"
    /\ Count(trace, "connect") = 2
    /\ Count(trace, "close") = 2

\* get_connection on an instance that holds a connection hands that
\* connection back: none is opened, nothing is raised
SameConnectionReturned ==
    (call'.op = "get_connection" /\ _con # None) =>
        /\ _con' = _con
        /\ connections' = connections
        /\ result'.exc = "none"

\* close_connection on an instance that holds none leaves the handle None
\* and raises nothing
NothingToClose ==
    (call'.op = "close_connection" /\ _con = None) =>
        /\ _con' = None
        /\ connections' = connections
        /\ result'.exc = "none"

\* the connections open are the one the handle refers to, if any
ConnectionReferenced ==
    /\ connections \in { 0, 1 }
    /\ (connections = 1) <=> (_con # None)

\* C14: a Database holds at most one open connection at a time:
\* get_connection called while a connection is open returns that connection
\* without opening another and without raising, close_connection called
\* with no connection leaves the handle None without raising, and after any
\* sequence of operations every open connection is the one the handle
\* refers to.
C14_AtMostOneConnection ==
    /\ ConnectionReferenced
    /\ [][SameConnectionReturned /\ NothingToClose /\ ConnectionReferenced']_vars

\* C14 witness: get_connection was called on an instance that held a
\* connection, and one connection is open.
C14_Witness ==
    /\ call.op = "get_connection"
    /\ trace = << "warn: already established" >>
    /\ result.exc = "none"
    /\ connections = 1
    /\ _con = Connection

\* the name and the type token of a declared column were checked, and the
\* fragment holds them and nothing else
FragmentChecked(fragment, col) ==
    /\ fragment = col.name \o << " " >> \o Upper(col.type)
    /\ ~Rejected(col.name)
    /\ ~Rejected(Upper(col.type))
    /\ Upper(col.type) \in DB_DATA_TYPES_ALLOWED

\* the text of a statement holds the table name of the call, which the
\* sanitizer let pass, the fragments of checked columns in a CREATE
\* statement only, and "?" in an INSERT statement only, one per column of
\* the table
StatementChecked(s) ==
    /\ s.table = call.table_name
    /\ ~Rejected(s.table)
    /\ IF s.verb = "CREATE TABLE IF NOT EXISTS"
       THEN /\ DOMAIN s.col_def = DOMAIN call.columns
            /\ \A i \in DOMAIN s.col_def : FragmentChecked(s.col_def[i], call.columns[i])
       ELSE s.col_def = <<>>
    /\ IF s.verb = "INSERT INTO"
       THEN /\ TableExists(file, s.table)
            /\ s.placeholders = Len(file[TableKey(s.table)].columns)
       ELSE s.placeholders = 0

\* C15: every table name, column name and type token in the text of a
\* statement built by create_table, get_columns, insert or insert_many (the
\* last two through prepare_insertion_query) has passed the sanitizer, and
\* every type token the vocabulary, before the text is built; a call the
\* validation stops builds no statement; the values of a row are not part of
\* the text, which holds one "?" for each of them.
C15_OnlyCheckedTextInterpolated ==
    call.op \in TableOperations =>
        /\ \A k \in DOMAIN sql : StatementChecked(sql[k])
        /\ result.exc = "ValidationError" => sql = <<>>
        /\ \A k \in DOMAIN sql :
              sql[k].verb = (IF call.op = "create_table" THEN "CREATE TABLE IF NOT EXISTS"
                             ELSE IF k = 1 THEN "PRAGMA table_info" ELSE "INSERT INTO")

\* C15 witness: a row was inserted through a statement that holds only the
\* checked table name and two "?".
C15_Witness ==
    /\ call.op = "insert"
    /\ result.exc = "none"
    /\ Len(sql) = 2
    /\ sql[2].verb = "INSERT INTO"
    /\ sql[2].placeholders = 2
    /\ Len(call.data[1]) = 2

\* the number of columns of the table a call names
Arity(table_name) == Len(file[TableKey(table_name)].columns)

\* C16: insert_many compares the width of the first row of the batch only
\* with the number of columns of the table: on an existing table a batch
\* whose first row has that width is not stopped by ArityMismatchError and
\* reaches the execution of the statement whatever the widths of the later
\* rows, and a batch whose first row has another width ends with
\* ArityMismatchError after the reflection, nothing executed on the table
\* and the file unchanged.
C16_ArityFromFirstRow ==
    [][ ( /\ call'.op = "insert_many"
          /\ call'.data # <<>>
          /\ TableExists(file, call'.table_name) )
        => IF Len(call'.data[1]) = Arity(call'.table_name)
           THEN /\ result'.exc # "ArityMismatchError"
                /\ Len(trace') = 8
                /\ trace'[6] = "execute"
           ELSE /\ result'.exc = "ArityMismatchError"
                /\ Len(trace') = 4
                /\ file' = file ]_vars

\* C16 witness: a batch whose first row fits and whose second row is too
\* short reached the execution, where the engine rejected it.
C16_Witness ==
    /\ call.op = "insert_many"
    /\ Len(call.data) = 2
    /\ TableExists(file, call.table_name)
    /\ Len(call.data[1]) = Arity(call.table_name)
    /\ Len(call.data[2]) # Arity(call.table_name)
    /\ Len(trace) = 8
    /\ trace[6] = "execute"
    /\ result.exc = "StoreExecutionError"

\* an integer written as the adapter writes it, or with a plus sign
IsSignedDigits(f) ==
    \/ f # <<>> /\ AllDigits(f)
    \/ Len(f) > 1 /\ f[1] \in { "-", "+" } /\ AllDigits(Tail(f))

\* the exact form <days>,<seconds>,<microseconds>
IsExactLayout(t) ==
    /\ Len(SplitOn(t, ",")) = 3
    /\ \A i \in 1..3 : IsSignedDigits(SplitOn(t, ",")[i])

\* three fields, each an integer as int() reads one: whitespace around it,
\* an optional sign, digits with single underscores between them
IsReadableLayout(t) ==
    /\ Len(SplitOn(t, ",")) = 3
    /\ \A i \in 1..3 : IsIntLiteral(Strip(SplitOn(t, ",")[i]))

\* C17, as claimed: the text of a TIMEDELTA column is decoded only when it
\* has the exact form <days>,<seconds>,<microseconds>, three signed integers
\* separated by commas; whitespace around a field or any other decoration
\* makes the decoding fail.
C17_ExactLayoutOnly ==
    (codec.phase = "done" /\ codec.from = "text" /\ ~codec.raised)
        => IsExactLayout(codec.text)

\* C17, amended: the text of a TIMEDELTA column is decoded exactly when it
\* splits at its commas into three fields each of which int() reads, that
\* is an optional sign and digits, with whitespace around the field and
\* single underscores between the digits allowed; fewer or more than three
\* fields, an empty field or a field that is no integer make the decoding
\* fail, and a text of the exact form is always decoded.
C17_ThreeIntFields ==
    (codec.phase = "done" /\ codec.from = "text") =>
        /\ ~codec.raised <=> IsReadableLayout(codec.text)
        /\ IsExactLayout(codec.text) => ~codec.raised
        /\ ~codec.raised => codec.decoded.k = "timedelta"

\* C17 witness: a text with a blank around a field or an underscore between
\* digits was decoded.
C17_Witness ==
    /\ codec.phase = "done"
    /\ codec.from = "text"
    /\ ~codec.raised
    /\ ~IsExactLayout(codec.text)
    /\ Len(SplitOn(codec.text, ",")) = 3

\* the rows of the table a call names
RowsOf(db, table_name) == db[TableKey(table_name)].rows

\* C18: insert_many is all or nothing: a batch that reaches the engine on
\* an existing table either ends without error, every row of it stored, or
\* is rejected by the engine (a later row of the wrong width, a duplicate
\* primary key), the transaction rolled back and the table as it was before
\* the call, the rows before the rejected one not stored.
C18_BatchAllOrNothing ==
    [][ ( /\ call'.op = "insert_many"
          /\ call'.data # <<>>
          /\ TableExists(file, call'.table_name)
          /\ Len(trace') = 8 )
        => IF result'.exc = "none"
           THEN /\ trace'[7] = "commit"
                /\ Len(RowsOf(file', call'.table_name))
                       = Len(RowsOf(file, call'.table_name)) + Len(call'.data)
           ELSE /\ result'.exc \in EngineFailures
                /\ trace'[7] = "rollback"
                /\ file' = file ]_vars

\* C18 witness: the second row of a batch repeated the primary key of the
\* first; the engine rejected the batch and the table holds no row.
C18_Witness ==
    /\ call.op = "insert_many"
    /\ Len(call.data) = 2
    /\ call.data[1] = call.data[2]
    /\ result.exc = "StoreExecutionError"
    /\ result.detail = "UNIQUE constraint failed"
    /\ trace[7] = "rollback"
    /\ TableExists(file, call.table_name)
    /\ RowsOf(file, call.table_name) = <<>>

\* the columns the CREATE statement of a call declares are not the columns
\* the table has
DeclaresOtherColumns(statements, table) ==
    /\ statements # <<>>
    /\ ParseColumns(statements[1].col_def) # table.columns

\* C19, as claimed: create_table on a table that exists, with a declaration
\* that passes the validation and differs from the table's columns, raises
\* no error and leaves the reflected schema and the rows of the table as
\* they were.
C19_RedeclarationIgnored ==
    [][ ( /\ call'.op = "create_table"
          /\ TableExists(file, call'.table_name)
          /\ result'.exc # "ValidationError"
          /\ DeclaresOtherColumns(sql', file[TableKey(call'.table_name)]) )
        => (result'.exc = "none" /\ file' = file) ]_vars

\* C19, amended: create_table on a table that exists, with a declaration
\* that passes the validation, differs from the table's columns and makes
\* a statement the engine can parse (at least one column, no reserved word
\* as the name of a column), raises no error and leaves the reflected
\* schema and the rows of the table as they were, also when the declaration
\* is one the engine would refuse for a new table (two primary keys); a
\* declaration whose statement does not parse raises the engine's error,
\* the table again as it was.
C19_ParsedRedeclarationIgnored ==
    [][ ( /\ call'.op = "create_table"
          /\ TableExists(file, call'.table_name)
          /\ result'.exc # "ValidationError"
          /\ DeclaresOtherColumns(sql', file[TableKey(call'.table_name)]) )
        => /\ file' = file
           /\ EnginePragma(file', call'.table_name).columns
                  = EnginePragma(file, call'.table_name).columns
           /\ EngineSelectAll(file', call'.table_name).rows
                  = EngineSelectAll(file, call'.table_name).rows
           /\ IF Parses(call'.table_name, sql'[1].col_def)
              THEN result'.exc = "none"
              ELSE /\ result'.exc = "StoreExecutionError"
                   /\ result'.detail = "syntax error" ]_vars

\* C19 witness: create_table with another declaration has returned without
\* error on a table that holds a row, the table's columns still not the
\* declared ones.
C19_Witness ==
    /\ call.op = "create_table"
    /\ result.exc = "none"
    /\ TableExists(file, call.table_name)
    /\ DeclaresOtherColumns(sql, file[TableKey(call.table_name)])
    /\ file[TableKey(call.table_name)].rows # <<>>

\* the errors the operations raise by design
Taxonomy ==
    { "ValidationError", "SchemaNotFoundError", "ArityMismatchError",
      "StoreExecutionError" }

\* C20: insert_many with an empty batch fails when it reads the first row,
\* before the table name is sanitized, the columns are reflected or a
\* connection is acquired, whatever the table name: the error is none of
\* ValidationError, SchemaNotFoundError, ArityMismatchError and
\* StoreExecutionError, no statement is built, nothing is logged, and
\* handle, connections and store are as before the call.
C20_EmptyBatchFailsFirst ==
    [][ (call'.op = "insert_many" /\ call'.data = <<>>)
        => /\ result'.exc = "IndexError"
           /\ result'.exc \notin Taxonomy
           /\ trace' = <<>>
           /\ sql' = <<>>
           /\ log' = <<>>
           /\ _con' = _con
           /\ connections' = connections
           /\ file' = file ]_vars

\* C20 witness: an empty batch for a table name the sanitizer rejects, on
\* an instance whose caller holds a connection, ended with IndexError and
\* the connection still held.
C20_Witness ==
    /\ call.op = "insert_many"
    /\ call.data = <<>>
    /\ Rejected(call.table_name)
    /\ result.exc = "IndexError"
    /\ trace = <<>>
    /\ _con = Connection

====
